---- MODULE Spec2Model ----
(***************************************************************************)
(* Model of the SR-IOV cloud-init hook sidecar (src/cloudinit.go): the     *)
(* PreCloudInitIso handler, the interface matcher and state extractor,     *)
(* the network-config synthesizer and the user-data merger.                *)
(*                                                                         *)
(* Texts (user-data, YAML documents) are sequences of tokens; a base64     *)
(* text is a sequence of symbol codes.  IP addresses, MACs and link names  *)
(* are strings or small records.                                           *)
(***************************************************************************)
EXTENDS Integers, Sequences, FiniteSets, TLC

\* ------------------------------------------------------------------ bounds
MaxNets == 3
MaxIfaces == 2
MaxRoutes == 3
MaxText == 3

\* ------------------------------------------------------------------- texts
HDR == "#cloud-config"
NL == "\n"
MARK == "manage_resolv_conf:"
Nil == "<nil>"

HasPrefix(s, p) ==
  Len(s) >= Len(p) /\ SubSeq(s, 1, Len(p)) = p

Contains(s, p) ==
  \E i \in 1..(Len(s) - Len(p) + 1) : SubSeq(s, i, i + Len(p) - 1) = p

\* base64.StdEncoding: a text is encoded symbol by symbol, token t as the
\* symbol <<t>>; the symbol <<>> is outside the alphabet and makes
\* DecodeString fail
BadSym == <<>>

EncodeSym(t) == <<t>>

EncodeToString(text) == [i \in 1..Len(text) |-> EncodeSym(text[i])]

DecodeOK(b64) == \A i \in 1..Len(b64) : b64[i] # BadSym

\* DecodeString returns the bytes decoded before the first bad symbol
RECURSIVE DecodeString(_)
DecodeString(b64) ==
  IF b64 = <<>> \/ Head(b64) = BadSym THEN <<>>
  ELSE <<Head(b64)[1]>> \o DecodeString(Tail(b64))

\* --------------------------------------------------------- user-data merger
\* the user-data text setUserData starts from, and its error.  The decoded
\* text of line 90 is bound by := to a variable of the else-if block alone;
\* the function's own userData is still empty when the block ends.
setUserData(cloudInitData) ==
  LET decoded == DecodeString(cloudInitData.UserDataBase64)
      decodeErr == ~DecodeOK(cloudInitData.UserDataBase64)
      userData == IF cloudInitData.UserData # <<>>
                  THEN cloudInitData.UserData
                  ELSE <<>>
  IN  IF cloudInitData.UserData = <<>> /\ cloudInitData.UserDataBase64 # <<>>
         /\ decodeErr
      THEN [userData |-> decoded, err |-> "base64"]
      ELSE IF Len(userData) = 0
      THEN [userData |-> <<HDR, NL>>, err |-> "nil"]
      ELSE [userData |-> userData, err |-> "nil"]

\* appendResolvData without the check for a marker already there
appendResolvDataUnguarded(resolvData, userData) ==
  IF Len(resolvData) > 0 /\ HasPrefix(userData, <<HDR>>)
  THEN (userData \o <<NL>>) \o resolvData
  ELSE userData

\* the resolver-augmentation step of setAdditionalData
appendResolvData(resolvData, userData) ==
  IF Len(resolvData) > 0
  THEN IF HasPrefix(userData, <<HDR>>)
       THEN IF Contains(userData, <<MARK>>)
            THEN userData
            ELSE (userData \o <<NL>>) \o resolvData
       ELSE userData
  ELSE userData

\* the boot command recording the guest's hostname mapping
bootStr(hostsIp, hostname) ==
  << "bootcmd:", NL, "-",
     "cloud-init-per instance etcHosts sh -c echo", hostsIp, hostname,
     ">> /etc/hosts", NL >>

\* the bootcmd step of setAdditionalData
appendBootcmd(hostsIp, hostname, userData) ==
  IF hostsIp # ""
  THEN IF HasPrefix(userData, <<HDR>>)
       THEN userData \o bootStr(hostsIp, hostname)
       ELSE userData
  ELSE userData

setAdditionalData(hostsIp, hostname, resolvData, userData) ==
  appendBootcmd(hostsIp, hostname, appendResolvData(resolvData, userData))

\* ------------------------------------------------------ resolver document
RECURSIVE yamlList(_)
yamlList(items) ==
  IF items = <<>> THEN <<>>
  ELSE <<"-", Head(items), NL>> \o yamlList(Tail(items))

\* yaml.Marshal of a CloudInitManageResolv: every field is omitempty
yamlManageResolv(m) ==
  (IF m.ManageResolv THEN <<MARK, "true", NL>> ELSE <<>>)
  \o (IF m.NameServers # <<>> \/ m.SearchDomains # <<>>
      THEN <<"resolv_conf:", NL>> ELSE <<>>)
  \o (IF m.NameServers # <<>>
      THEN <<"nameservers:", NL>> \o yamlList(m.NameServers) ELSE <<>>)
  \o (IF m.SearchDomains # <<>>
      THEN <<"searchdomains:", NL>> \o yamlList(m.SearchDomains) ELSE <<>>)

\* getCloudInitManageResolv once the pod's resolver state has been read
manageResolvOf(nameServers, searchDomains) ==
  [ManageResolv |-> TRUE, NameServers |-> nameServers,
   SearchDomains |-> searchDomains]

\* ------------------------------------------------------ interface matcher
\* a network of the VM spec names itself and carries one network source
NetKinds == {"pod", "multusDefault", "multus", "genie"}
\* an interface of the domain names a network and carries one binding method
IfaceKinds == {"sriov", "bridge", "masquerade", "slirp"}

EmptyMap == [x \in {} |-> 0]

Put(f, k, v) == [x \in (DOMAIN f) \cup {k} |-> IF x = k THEN v ELSE f[x]]

\* setNetworkInfoFrom with the alternate-CNI networks on the multus counter
RECURSIVE setNetworkInfoSharedCounter(_, _, _, _)
setNetworkInfoSharedCounter(nets, i, cniNetworks, multusNetworkIndex) ==
  IF i > Len(nets) THEN cniNetworks
  ELSE
    LET vmiNetwork == nets[i]
    IN  IF vmiNetwork.Kind = "multusDefault"
        THEN setNetworkInfoSharedCounter(nets, i + 1,
               Put(cniNetworks, vmiNetwork.Name, 0), multusNetworkIndex)
        ELSE IF vmiNetwork.Kind \in {"multus", "genie"}
        THEN setNetworkInfoSharedCounter(nets, i + 1,
               Put(cniNetworks, vmiNetwork.Name, multusNetworkIndex),
               multusNetworkIndex + 1)
        ELSE setNetworkInfoSharedCounter(nets, i + 1, cniNetworks,
               multusNetworkIndex)

\* the loop of setNetworkInfo from network i on: cniNetworks
RECURSIVE setNetworkInfoFrom(_, _, _, _)
setNetworkInfoFrom(nets, i, cniNetworks, multusNetworkIndex) ==
  IF i > Len(nets) THEN cniNetworks
  ELSE
    LET vmiNetwork == nets[i]
        c1 == IF vmiNetwork.Kind = "multusDefault"
              THEN Put(cniNetworks, vmiNetwork.Name, 0)
              ELSE IF vmiNetwork.Kind = "multus"
              THEN Put(cniNetworks, vmiNetwork.Name, multusNetworkIndex)
              ELSE cniNetworks
        m1 == IF vmiNetwork.Kind = "multus"
              THEN multusNetworkIndex + 1
              ELSE multusNetworkIndex
        c2 == IF vmiNetwork.Kind = "genie"
              THEN Put(c1, vmiNetwork.Name, Cardinality(DOMAIN c1))
              ELSE c1
    IN  setNetworkInfoFrom(nets, i + 1, c2, m1)

\* setNetworkInfo's second result: network name -> link-name suffix index
setNetworkInfo(vmi) == setNetworkInfoFrom(vmi.Networks, 1, EmptyMap, 1)

\* setNetworkInfo's first result: the names that resolve to a network
networkNames(vmi) == {vmi.Networks[i].Name : i \in 1..Len(vmi.Networks)}

\* networks[name]: the last declared network of that name
networkOf(vmi, name) ==
  LET last == CHOOSE i \in 1..Len(vmi.Networks) :
                /\ vmi.Networks[i].Name = name
                /\ \A j \in (i + 1)..Len(vmi.Networks) :
                     vmi.Networks[j].Name # name
  IN  vmi.Networks[last]

\* the prefix chosen in getSriovNetworkInfo for a CNI network
linkPrefix(net) ==
  IF net.Kind \in {"multusDefault", "multus"}
  THEN IF net.Kind = "multusDefault" THEN "eth" ELSE "net"
  ELSE IF net.Kind = "genie" THEN "eth" ELSE ""

\* fmt.Sprintf("%s%d", prefix, value)
linkName(vmi, name) ==
  linkPrefix(networkOf(vmi, name)) \o ToString(setNetworkInfo(vmi)[name])

\* scanInterfaces passing over an interface whose network is not declared
RECURSIVE scanInterfacesSkipMissing(_, _, _)
scanInterfacesSkipMissing(vmi, i, dr) ==
  IF i > Len(vmi.Interfaces)
  THEN [stop |-> "end", i |-> i, disableResolv |-> dr]
  ELSE
    LET iface == vmi.Interfaces[i]
        isExist == iface.Name \in networkNames(vmi)
        dr1 == dr \/ iface.Kind \in {"bridge", "masquerade"}
    IN  IF ~isExist
        THEN scanInterfacesSkipMissing(vmi, i + 1, dr)
        ELSE IF iface.Name \in DOMAIN setNetworkInfo(vmi) /\ iface.Kind = "sriov"
        THEN [stop |-> "details", i |-> i, disableResolv |-> dr1]
        ELSE scanInterfacesSkipMissing(vmi, i + 1, dr1)

\* the interface loop of getSriovNetworkInfo from interface i on, up to the
\* next call of getNetworkDetails, the return of line 338 or the loop's end
RECURSIVE scanInterfaces(_, _, _)
scanInterfaces(vmi, i, dr) ==
  IF i > Len(vmi.Interfaces)
  THEN [stop |-> "end", i |-> i, disableResolv |-> dr]
  ELSE
    LET iface == vmi.Interfaces[i]
        isExist == iface.Name \in networkNames(vmi)
        dr1 == dr \/ iface.Kind \in {"bridge", "masquerade"}
    IN  IF ~isExist
        THEN [stop |-> "notfound", i |-> i, disableResolv |-> dr]
        ELSE IF iface.Name \in DOMAIN setNetworkInfo(vmi) /\ iface.Kind = "sriov"
        THEN [stop |-> "details", i |-> i, disableResolv |-> dr1]
        ELSE scanInterfaces(vmi, i + 1, dr1)

\* ------------------------------------------------ network-config synthesizer
\* a nil net.IP, a nil *net.IPNet, an Addr with no IPNet
NoIP == ""
NoNet == [IP |-> NoIP, Mask |-> NoIP]
NoAddr == [IP |-> NoIP, Cidr |-> "", Label |-> ""]

\* net.IP.String
IPString(ip) == IF ip = NoIP THEN Nil ELSE ip

\* net.IP.Equal: a nil IP equals only an empty one
IPEqual(a, b) == a = b

\* netlink.Addr.String, as its space-separated fields
AddrString(addr) ==
  IF addr = NoAddr THEN <<Nil>> ELSE <<addr.Cidr, addr.Label>>

\* convertRoutes keeping the first gateway it meets
RECURSIVE convertRoutesFirstGateway(_, _, _, _)
convertRoutesFirstGateway(routes, primary, gateway, nifRoutes) ==
  IF routes = <<>> THEN [Gateway |-> gateway, Routes |-> nifRoutes]
  ELSE
    LET route == Head(routes)
        rest == Tail(routes)
    IN  IF route.Dst = NoNet /\ IPEqual(route.Src, NoIP) /\ IPEqual(route.Gw, NoIP)
        THEN convertRoutesFirstGateway(rest, primary, gateway, nifRoutes)
        ELSE IF route.Src # NoIP /\ IPEqual(route.Src, primary)
        THEN convertRoutesFirstGateway(rest, primary, gateway, nifRoutes)
        ELSE IF route.Dst = NoNet
        THEN convertRoutesFirstGateway(rest, primary,
               IF gateway = "" THEN IPString(route.Gw) ELSE gateway, nifRoutes)
        ELSE convertRoutesFirstGateway(rest, primary, gateway,
               Append(nifRoutes,
                 [Network |-> IPString(route.Dst.IP),
                  Netmask |-> IPString(route.Dst.Mask),
                  Gateway |-> IF route.Gw # NoIP
                              THEN IPString(route.Gw) ELSE ""]))

\* the route loop of convertCloudInitNetworksToCloudInitNetConfig
RECURSIVE convertRoutes(_, _, _, _)
convertRoutes(routes, primary, gateway, nifRoutes) ==
  IF routes = <<>> THEN [Gateway |-> gateway, Routes |-> nifRoutes]
  ELSE
    LET route == Head(routes)
        rest == Tail(routes)
    IN  IF route.Dst = NoNet /\ IPEqual(route.Src, NoIP) /\ IPEqual(route.Gw, NoIP)
        THEN convertRoutes(rest, primary, gateway, nifRoutes)
        ELSE IF route.Src # NoIP /\ IPEqual(route.Src, primary)
        THEN convertRoutes(rest, primary, gateway, nifRoutes)
        ELSE IF route.Dst = NoNet
        THEN convertRoutes(rest, primary, IPString(route.Gw), nifRoutes)
        ELSE convertRoutes(rest, primary, gateway,
               Append(nifRoutes,
                 [Network |-> IPString(route.Dst.IP),
                  Netmask |-> IPString(route.Dst.Mask),
                  Gateway |-> IF route.Gw # NoIP
                              THEN IPString(route.Gw) ELSE ""]))

\* the subnet synthesized for one interface-state record
convertSubnet(vif) ==
  IF AddrString(vif.IP) = <<Nil>>
  THEN [SubnetType |-> "manual", Address |-> "", Gateway |-> "",
        Routes |-> <<>>]
  ELSE
    LET r == convertRoutes(vif.Routes, vif.IP.IP, "", <<>>)
    IN  [SubnetType |-> "static", Address |-> Head(AddrString(vif.IP)),
         Gateway |-> r.Gateway, Routes |-> r.Routes]

\* the body of the interface loop: one CloudInitNetworkInterface
convertInterface(vif) ==
  [NetworkType |-> "physical", Name |-> vif.Name, MacAddress |-> vif.MAC,
   Mtu |-> vif.Mtu, Subnets |-> <<convertSubnet(vif)>>]

convertCloudInitNetworksToCloudInitNetConfig(cloudInitNetworks) ==
  [Version |-> 1,
   Config |-> [i \in 1..Len(cloudInitNetworks) |->
                 convertInterface(cloudInitNetworks[i])]]

\* ------------------------------------------------------------ the process
VARIABLES
  pc,              \* where the process is: boot, idle, a host query, done, dead
  HostsIpAddress,  \* var HostsIpAddress string
  disableResolv,   \* var disableResolv bool
  Handler,         \* network.Handler
  req,             \* the request being handled: [vmi, cid]
  idx,             \* the interface getSriovNetworkInfo is at
  sriovVifs,       \* sriovVifs of getSriovNetworkInfo
  vif,             \* vif of getNetworkDetails
  queries,         \* the host queries issued for this request, in order
  res,             \* what the call ended with
  fn, arg, out     \* a function applied on its own: its name, input, result

hvars == <<pc, HostsIpAddress, disableResolv, Handler, req, idx, sriovVifs,
           vif, queries, res>>
pvars == <<fn, arg, out>>
vars == <<hvars, pvars>>

\* ------------------------------------------------------------- the inputs
Hostname == "vm1"

RECURSIVE SeqsUpTo(_, _)
SeqsUpTo(S, n) ==
  IF n = 0 THEN {<<>>}
  ELSE LET shorter == SeqsUpTo(S, n - 1)
       IN  shorter \cup {Append(q, x) : q \in {r \in shorter : Len(r) = n - 1}, x \in S}

\* every list of network sources up to MaxNets networks
NetworkLists ==
  UNION {[1..n -> NetKinds] : n \in 0..MaxNets}

\* the network lists of the requests the handler is given
RequestNetworkLists ==
  { <<>>, <<"pod">>, <<"multusDefault">>, <<"genie">>, <<"pod", "multus">>,
    <<"multusDefault", "multus">>, <<"multus", "genie">>, <<"genie", "genie">> }

\* the i-th declared network is named i
NetworksOf(kinds) == [i \in 1..Len(kinds) |-> [Name |-> i, Kind |-> kinds[i]]]

\* the interfaces name a declared network or the one undeclared name n + 1,
\* and no two interfaces of a VM bear the same name
InterfaceLists(n) ==
  {l \in SeqsUpTo([Name : 1..(n + 1), Kind : IfaceKinds], MaxIfaces) :
     \A i, j \in 1..Len(l) : l[i].Name = l[j].Name => i = j}

VM(kinds, ifaces) ==
  [Networks |-> NetworksOf(kinds), Interfaces |-> ifaces, Hostname |-> Hostname]

VMs ==
  UNION {{VM(kinds, ifaces) : ifaces \in InterfaceLists(Len(kinds))} :
         kinds \in RequestNetworkLists}

NetText == <<"version: 1">>

UserDataTexts ==
  {<<>>, <<HDR, NL>>, <<"#!/bin/sh", NL>>, <<HDR, NL, MARK, "false", NL>>}

UserDataBase64s ==
  {<<>>, EncodeToString(<<HDR, NL, "packages:", NL>>), <<BadSym>>}

Source(ud, ud64, nd, nd64, ref) ==
  [UserData |-> ud, UserDataBase64 |-> ud64, NetworkData |-> nd,
   NetworkDataBase64 |-> nd64, NetworkDataSecretRef |-> ref]

CloudInitSources ==
  {Source(ud, ud64, <<>>, <<>>, "nil") : ud \in UserDataTexts, ud64 \in UserDataBase64s}
  \cup {Source(ud, <<>>, nd, nd64, ref) :
          ud \in {<<>>, <<HDR, NL>>},
          nd \in {<<>>, NetText},
          nd64 \in {<<>>, EncodeToString(NetText)},
          ref \in {"nil", "netdata-secret"}}

\* what the host answers
HostAddr == [IP |-> "10.0.0.5", Cidr |-> "10.0.0.5/24", Label |-> "eth0"]
DefaultRoute == [Dst |-> NoNet, Src |-> NoIP, Gw |-> "10.0.0.1"]
HostAddrLists == {<<>>, <<HostAddr>>}
HostRouteLists == {<<>>, <<DefaultRoute>>}
HostResolvConfs ==
  {[nameServers |-> <<>>, searchDomains |-> <<>>],
   [nameServers |-> <<"8.8.8.8">>, searchDomains |-> <<"example.com">>]}

NoVMI == [Networks |-> <<>>, Interfaces |-> <<>>, Hostname |-> ""]
NoReq == [vmi |-> NoVMI, cid |-> Source(<<>>, <<>>, <<>>, <<>>, "nil")]
NoVif == [Name |-> "", IP |-> NoAddr, MAC |-> "", Mtu |-> 0, Routes |-> <<>>]
NoRes ==
  [outcome |-> "none", err |-> "nil", CloudInitData |-> NoReq.cid,
   networkData |-> <<>>, resolvData |-> <<>>, startUserData |-> <<>>,
   userData |-> <<>>]

Query(op, link, ok) == [op |-> op, link |-> link, ok |-> ok]

\* ------------------------------------------------------ the request handler
\* The server may run several calls at once; the calls are taken here one
\* after the other, which is one of its schedules.  A call is a sequence of
\* steps, one per host query, each running the code up to the next query.
Init ==
  /\ pc = "boot"
  /\ HostsIpAddress = ""
  /\ disableResolv = FALSE
  /\ Handler = "nil"
  /\ req = NoReq
  /\ idx = 0
  /\ sriovVifs = <<>>
  /\ vif = NoVif
  /\ queries = <<>>
  /\ res = NoRes
  /\ fn = "none" /\ arg = <<>> /\ out = <<>>

\* main: no statement of it assigns HostsIpAddress
main ==
  /\ pc = "boot"
  /\ pc' = "idle"
  /\ UNCHANGED <<HostsIpAddress, disableResolv, Handler, req, idx, sriovVifs,
                 vif, queries, res, pvars>>

\* panic(err) in the handler's goroutine: nothing recovers it
Panic(err) ==
  /\ pc' = "dead"
  /\ res' = [NoRes EXCEPT !.outcome = "panic", !.err = err,
                          !.CloudInitData = req'.cid]

\* lines 154-177, entered with the two documents of cloudInitDiscoverNetworkData
Respond(r, networkData, resolvData) ==
  LET u == setUserData(r.cid)
      userData == setAdditionalData(HostsIpAddress, r.vmi.Hostname,
                                    resolvData, u.userData)
  IN  /\ pc' = "done"
      /\ res' =
           IF u.err # "nil"
           THEN [NoRes EXCEPT !.outcome = "error", !.err = u.err,
                              !.CloudInitData = r.cid]
           ELSE [outcome |-> "ok", err |-> "nil",
                 CloudInitData |->
                   [r.cid EXCEPT !.UserDataBase64 = EncodeToString(userData),
                                 !.NetworkDataBase64 = EncodeToString(networkData),
                                 !.UserData = <<>>],
                 networkData |-> networkData, resolvData |-> resolvData,
                 startUserData |-> u.userData, userData |-> userData]

\* yaml.Marshal(config): the document, held as a text of one token
yamlNetConfig(config) == <<config>>

\* getSriovNetworkInfo from interface i on, with the interfaces extracted so
\* far, and what follows it in cloudInitDiscoverNetworkData and the handler,
\* up to the next host query
Discover(r, i, vifs) ==
  LET s == scanInterfaces(r.vmi, i, disableResolv)
  IN  /\ disableResolv' = s.disableResolv
      /\ idx' = s.i
      /\ sriovVifs' = vifs
      /\ CASE s.stop = "notfound" ->
                /\ Panic("failed to find network")
                /\ UNCHANGED <<Handler, vif>>
           [] s.stop = "details" ->
                /\ pc' = "LinkByName"
                /\ Handler' = "NetworkUtilsHandler"
                /\ vif' = [NoVif EXCEPT
                             !.Name = linkName(r.vmi, r.vmi.Interfaces[s.i].Name)]
                /\ res' = NoRes
           [] s.stop = "end" /\ Len(vifs) = 0 ->
                /\ Panic("No SRIOV interfaces found")
                /\ UNCHANGED <<Handler, vif>>
           [] s.stop = "end" /\ Len(vifs) > 0 /\ s.disableResolv ->
                /\ Respond(r,
                     yamlNetConfig(convertCloudInitNetworksToCloudInitNetConfig(vifs)),
                     <<>>)
                /\ UNCHANGED <<Handler, vif>>
           [] s.stop = "end" /\ Len(vifs) > 0 /\ ~s.disableResolv ->
                /\ pc' = "GetResolvConf"
                /\ res' = NoRes
                /\ UNCHANGED <<Handler, vif>>

\* NetworkDataDeclared overlooking the secret reference
NetworkDataDeclaredNoSecretRef(cid) ==
  cid.NetworkData # <<>> \/ cid.NetworkDataBase64 # <<>>

NetworkDataDeclared(cid) ==
  cid.NetworkData # <<>> \/ cid.NetworkDataBase64 # <<>>
    \/ cid.NetworkDataSecretRef # "nil"

\* PreCloudInitIso on a source that declares network data: lines 141-146
PreCloudInitIsoPassThrough ==
  /\ pc = "idle"
  /\ \E vmi \in VMs, cid \in CloudInitSources :
       /\ NetworkDataDeclared(cid)
       /\ req' = [vmi |-> vmi, cid |-> cid]
       /\ pc' = "done"
       /\ res' = [NoRes EXCEPT !.outcome = "ok", !.CloudInitData = cid]
  /\ UNCHANGED <<HostsIpAddress, disableResolv, Handler, idx, sriovVifs, vif,
                 queries, pvars>>

\* PreCloudInitIso on any other source, up to its first host query
PreCloudInitIsoDiscover ==
  /\ pc = "idle"
  /\ \E vmi \in VMs, cid \in CloudInitSources :
       /\ ~NetworkDataDeclared(cid)
       /\ req' = [vmi |-> vmi, cid |-> cid]
       /\ Discover(req', 1, <<>>)
  /\ UNCHANGED <<HostsIpAddress, queries, pvars>>

\* getNetworkDetails: network.Handler.LinkByName(vif.Name)
LinkByName ==
  /\ pc = "LinkByName"
  /\ UNCHANGED <<HostsIpAddress, disableResolv, Handler, req, idx, sriovVifs, pvars>>
  /\ \E ok \in BOOLEAN :
       /\ queries' = Append(queries, Query("LinkByName", vif.Name, ok))
       /\ IF ok
          THEN /\ pc' = "AddrList"
               /\ UNCHANGED <<vif, res>>
          ELSE /\ Panic("link lookup failed")
               /\ UNCHANGED vif

\* getNetworkDetails: network.Handler.AddrList(link, FAMILY_V4)
AddrList ==
  /\ pc = "AddrList"
  /\ UNCHANGED <<HostsIpAddress, disableResolv, Handler, req, idx, sriovVifs, pvars>>
  /\ \/ /\ queries' = Append(queries, Query("AddrList", vif.Name, FALSE))
        /\ Panic("address list failed")
        /\ UNCHANGED vif
     \/ \E addrList \in HostAddrLists :
          /\ queries' = Append(queries, Query("AddrList", vif.Name, TRUE))
          /\ vif' = IF Len(addrList) > 0 THEN [vif EXCEPT !.IP = addrList[1]]
                    ELSE vif
          /\ pc' = "GetMacDetails"
          /\ UNCHANGED res

\* GetMacDetails going on without a MAC when the query fails
GetMacDetailsIgnoreError ==
  /\ pc = "GetMacDetails"
  /\ UNCHANGED <<HostsIpAddress, disableResolv, Handler, req, idx, sriovVifs, pvars>>
  /\ \E ok \in BOOLEAN :
       /\ queries' = Append(queries, Query("GetMacDetails", vif.Name, ok))
       /\ vif' = IF ok THEN [vif EXCEPT !.MAC = "aa:bb:cc:dd:ee:ff"] ELSE vif
       /\ pc' = "RouteList"
       /\ UNCHANGED res

\* getNetworkDetails: network.Handler.GetMacDetails(vif.Name)
GetMacDetails ==
  /\ pc = "GetMacDetails"
  /\ UNCHANGED <<HostsIpAddress, disableResolv, Handler, req, idx, sriovVifs, pvars>>
  /\ \E ok \in BOOLEAN :
       /\ queries' = Append(queries, Query("GetMacDetails", vif.Name, ok))
       /\ IF ok
          THEN /\ vif' = [vif EXCEPT !.MAC = "aa:bb:cc:dd:ee:ff"]
               /\ pc' = "RouteList"
               /\ UNCHANGED res
          ELSE /\ Panic("MAC retrieval failed")
               /\ UNCHANGED vif

\* getNetworkDetails: network.Handler.RouteList(link, FAMILY_V4), and the
\* rest of the request up to its next host query
RouteList ==
  /\ pc = "RouteList"
  /\ UNCHANGED <<HostsIpAddress, req, pvars>>
  /\ \/ /\ queries' = Append(queries, Query("RouteList", vif.Name, FALSE))
        /\ Panic("route list failed")
        /\ UNCHANGED <<disableResolv, Handler, idx, sriovVifs, vif>>
     \/ \E routes \in HostRouteLists :
          /\ queries' = Append(queries, Query("RouteList", vif.Name, TRUE))
          /\ Discover(req, idx + 1,
               Append(sriovVifs, [vif EXCEPT !.Routes = routes, !.Mtu = 1500]))

\* getCloudInitManageResolv: getResolvConfDetailsFromPod(), and the rest of
\* the request
GetResolvConf ==
  /\ pc = "GetResolvConf"
  /\ UNCHANGED <<HostsIpAddress, disableResolv, Handler, req, idx, sriovVifs,
                 vif, pvars>>
  /\ \/ /\ queries' = Append(queries, Query("GetResolvConfDetails", "", FALSE))
        /\ Panic("resolv.conf read failed")
     \/ \E conf \in HostResolvConfs :
          /\ queries' = Append(queries, Query("GetResolvConfDetails", "", TRUE))
          /\ Respond(req,
               yamlNetConfig(convertCloudInitNetworksToCloudInitNetConfig(sriovVifs)),
               yamlManageResolv(manageResolvOf(conf.nameServers, conf.searchDomains)))

\* the reply leaves the process; the handler's locals are gone
Return ==
  /\ pc = "done"
  /\ pc' = "idle"
  /\ req' = NoReq
  /\ idx' = 0
  /\ sriovVifs' = <<>>
  /\ vif' = NoVif
  /\ queries' = <<>>
  /\ res' = NoRes
  /\ UNCHANGED <<HostsIpAddress, disableResolv, Handler, pvars>>

Next ==
  \/ main
  \/ PreCloudInitIsoPassThrough
  \/ PreCloudInitIsoDiscover
  \/ LinkByName
  \/ AddrList
  \/ GetMacDetails
  \/ RouteList
  \/ GetResolvConf
  \/ Return

Spec == Init /\ [][Next]_vars

\* --------------------------------------------- the functions on their own
HandlerAtRest ==
  /\ pc = "boot"
  /\ HostsIpAddress = ""
  /\ disableResolv = FALSE
  /\ Handler = "nil"
  /\ req = NoReq
  /\ idx = 0
  /\ sriovVifs = <<>>
  /\ vif = NoVif
  /\ queries = <<>>
  /\ res = NoRes

\* the link names getSriovNetworkInfo asks the host about, from interface i
\* on, when every query is answered
RECURSIVE sriovLinkNames(_, _)
sriovLinkNames(vmi, i) ==
  LET s == scanInterfaces(vmi, i, FALSE)
  IN  IF s.stop = "details"
      THEN <<linkName(vmi, vmi.Interfaces[s.i].Name)>> \o sriovLinkNames(vmi, s.i + 1)
      ELSE <<>>

InitIndex ==
  /\ HandlerAtRest
  /\ fn = "getSriovNetworkInfo"
  /\ \E kinds \in NetworkLists :
       \E ifaces \in InterfaceLists(Len(kinds)) : arg = VM(kinds, ifaces)
  /\ out = <<>>

MatchInterfaces ==
  /\ fn = "getSriovNetworkInfo"
  /\ out = <<>>
  /\ out' = <<sriovLinkNames(arg, 1)>>
  /\ UNCHANGED <<hvars, fn, arg>>

SpecIndex == InitIndex /\ [][MatchInterfaces]_vars

\* the routes of an interface-state record
RouteSet ==
  [Dst : {NoNet, [IP |-> "10.1.0.0", Mask |-> "255.255.0.0"]},
   Src : {NoIP, "10.0.0.5", "10.0.0.7"},
   Gw : {NoIP, "10.0.0.1", "10.0.0.2"}]

InitRoutes ==
  /\ HandlerAtRest
  /\ fn = "convertCloudInitNetworksToCloudInitNetConfig"
  /\ arg \in {[NoVif EXCEPT !.Name = "eth0", !.IP = ip, !.Routes = routes] :
                ip \in {NoAddr, HostAddr}, routes \in SeqsUpTo(RouteSet, MaxRoutes)}
  /\ out = <<>>

Synthesize ==
  /\ fn = "convertCloudInitNetworksToCloudInitNetConfig"
  /\ out = <<>>
  /\ out' = <<convertCloudInitNetworksToCloudInitNetConfig(<<arg>>)>>
  /\ UNCHANGED <<hvars, fn, arg>>

SpecRoutes == InitRoutes /\ [][Synthesize]_vars

\* the resolver-management documents cloudInitDiscoverNetworkData produces
ResolvDocuments ==
  {yamlManageResolv(manageResolvOf(ns, sd)) :
     ns \in {<<>>, <<"8.8.8.8">>, <<"8.8.8.8", "1.1.1.1">>},
     sd \in {<<>>, <<"example.com">>}}

InitMerge ==
  /\ HandlerAtRest
  /\ fn = "setAdditionalData"
  /\ arg \in [userData : SeqsUpTo({HDR, NL, MARK, "packages:"}, MaxText),
              resolvData : ResolvDocuments]
  /\ out = <<>>

\* the resolver step, on the starting text
Augment ==
  /\ fn = "setAdditionalData"
  /\ out = <<>>
  /\ out' = <<appendResolvData(arg.resolvData, arg.userData)>>
  /\ UNCHANGED <<hvars, fn, arg>>

\* the resolver step, on its own output
AugmentAgain ==
  /\ fn = "setAdditionalData"
  /\ Len(out) = 1
  /\ out' = Append(out, appendResolvData(arg.resolvData, out[1]))
  /\ UNCHANGED <<hvars, fn, arg>>

NextMerge == Augment \/ AugmentAgain

SpecMerge == InitMerge /\ [][NextMerge]_vars

\* ------------------------------------------------------------- properties
\* what a request is, read off the request alone
DeclaresNetworkData(cid) ==
  <<cid.NetworkData, cid.NetworkDataBase64, cid.NetworkDataSecretRef>>
    # <<<<>>, <<>>, "nil">>

Resolves(vmi, i) ==
  \E n \in 1..Len(vmi.Networks) : vmi.Networks[n].Name = vmi.Interfaces[i].Name

AllResolve(vmi) == \A i \in 1..Len(vmi.Interfaces) : Resolves(vmi, i)

SriovIfaces(vmi) == {i \in 1..Len(vmi.Interfaces) : vmi.Interfaces[i].Kind = "sriov"}

HasDhcpIface(vmi) ==
  \E i \in 1..Len(vmi.Interfaces) : vmi.Interfaces[i].Kind \in {"bridge", "masquerade"}

\* interface i is SR-IOV and its network is a multi-network or alternate-CNI one
SriovOnCni(vmi, i) ==
  /\ i \in SriovIfaces(vmi)
  /\ \E n \in 1..Len(vmi.Networks) :
       /\ vmi.Networks[n].Name = vmi.Interfaces[i].Name
       /\ vmi.Networks[n].Kind \in {"multusDefault", "multus", "genie"}

CallEnded == pc \in {"done", "dead"}

Discovering == pc # "boot" /\ pc # "idle" /\ ~DeclaresNetworkData(req.cid)

\* C1: a request with no network data and no SR-IOV interface, every
\* reference resolving, ends with the "no SR-IOV interfaces" error as the
\* call's error result, no document, and the process still serving
C1_NoSriovIsCallError ==
  (CallEnded /\ Discovering /\ AllResolve(req.vmi) /\ SriovIfaces(req.vmi) = {})
    => /\ res.outcome = "error"
       /\ res.err = "No SRIOV interfaces found"
       /\ res.networkData = <<>> /\ res.userData = <<>>
       /\ pc # "dead"

\* C2: a request whose source declares network data succeeds, returns the
\* source as received, issues no host query and changes no process-wide
\* state, whatever the VM spec
C2_PassThrough ==
  [][(pc = "idle" /\ DeclaresNetworkData(req'.cid))
       => /\ pc' = "done"
          /\ res'.outcome = "ok" /\ res'.err = "nil"
          /\ res'.CloudInitData = req'.cid
          /\ queries' = <<>>
          /\ UNCHANGED <<HostsIpAddress, disableResolv, Handler>>]_vars

C2_Witness ==
  /\ pc = "done"
  /\ req.cid.NetworkDataSecretRef # "nil" /\ req.cid.NetworkData = <<>>
  /\ req.cid.NetworkDataBase64 = <<>>
  /\ SriovIfaces(req.vmi) # {}
  /\ res.outcome = "ok" /\ res.CloudInitData = req.cid

\* C3: the starting user-data is the literal text when non-empty, else the
\* decoding of the base64 field when non-empty (a decode failure being the
\* call's error), else the default header; it is carried into the result
C3_DecodeChoosesStart ==
  (pc = "done" /\ Discovering) =>
    LET ud == req.cid.UserData
        ud64 == req.cid.UserDataBase64
    IN  IF ud # <<>>
        THEN res.outcome = "ok" /\ res.startUserData = ud
        ELSE IF ud64 # <<>> /\ ~DecodeOK(ud64)
        THEN res.outcome = "error"
        ELSE /\ res.outcome = "ok"
             /\ res.startUserData =
                  IF ud64 # <<>> THEN DecodeString(ud64) ELSE <<HDR, NL>>
             /\ HasPrefix(res.userData, res.startUserData)

\* C4: a successful request for a VM with an SR-IOV interface and no
\* bridge/masquerade interface has had the resolver state queried and a
\* resolver document emitted, whatever requests came before
C4_ResolverIndependent ==
  (pc = "done" /\ Discovering /\ res.outcome = "ok"
     /\ SriovIfaces(req.vmi) # {} /\ ~HasDhcpIface(req.vmi))
    => /\ \E q \in 1..Len(queries) : queries[q].op = "GetResolvConfDetails"
       /\ res.resolvData # <<>>

C6_FinalUserData ==
  (pc = "done" /\ Discovering /\ res.outcome = "ok"
     /\ SriovIfaces(req.vmi) # {} /\ ~HasDhcpIface(req.vmi)
     /\ HasPrefix(res.startUserData, <<HDR>>)
     /\ ~Contains(res.startUserData, <<MARK>>))
    => /\ HostsIpAddress # ""
       /\ Contains(res.resolvData, <<MARK>>)
       /\ res.userData =
            ((res.startUserData \o <<NL>>) \o res.resolvData)
              \o bootStr(HostsIpAddress, req.vmi.Hostname)

\* the members of a set of numbers, in ascending order
RECURSIVE Ascending(_)
Ascending(S) ==
  IF S = {} THEN <<>>
  ELSE LET m == CHOOSE x \in S : \A y \in S : x <= y
       IN  <<m>> \o Ascending(S \ {m})

PositionOf(vmi, name) == CHOOSE n \in 1..Len(vmi.Networks) : vmi.Networks[n].Name = name

\* the SR-IOV interfaces on CNI networks that precede every unresolved one
MatchedIfaces(vmi) ==
  Ascending({i \in 1..Len(vmi.Interfaces) :
               SriovOnCni(vmi, i) /\ \A j \in 1..i : Resolves(vmi, j)})

CniKinds == {"multusDefault", "multus", "genie"}

\* the index by declaration order, an alternate-CNI network continuing the
\* counter: it takes the index after the highest one handed out before it
RECURSIVE ClaimedIndex(_, _)
ClaimedIndex(nets, p) ==
  CASE nets[p].Kind = "multusDefault" -> 0
    [] nets[p].Kind = "multus" ->
         1 + Cardinality({q \in 1..(p - 1) : nets[q].Kind = "multus"})
    [] nets[p].Kind = "genie" ->
         LET before == {ClaimedIndex(nets, q) :
                          q \in {r \in 1..(p - 1) : nets[r].Kind \in CniKinds}}
         IN  IF before = {} THEN 0
             ELSE 1 + (CHOOSE m \in before : \A x \in before : x <= m)

\* the index by declaration order, an alternate-CNI network taking the number
\* of multi-network and alternate-CNI networks declared before it
CountedIndex(nets, p) ==
  CASE nets[p].Kind = "multusDefault" -> 0
    [] nets[p].Kind = "multus" ->
         1 + Cardinality({q \in 1..(p - 1) : nets[q].Kind = "multus"})
    [] nets[p].Kind = "genie" ->
         Cardinality({q \in 1..(p - 1) : nets[q].Kind \in CniKinds})

LinkOf(vmi, i, Index(_, _)) ==
  LET p == PositionOf(vmi, vmi.Interfaces[i].Name)
  IN  (IF vmi.Networks[p].Kind = "multus" THEN "net" ELSE "eth")
        \o ToString(Index(vmi.Networks, p))

LinksBy(vmi, Index(_, _)) ==
  LET m == MatchedIfaces(vmi)
  IN  [k \in 1..Len(m) |-> LinkOf(vmi, m[k], Index)]

\* C8, as claimed: the link names of the SR-IOV interfaces are eth or net
\* followed by the declaration-order index, the alternate-CNI networks'
\* indices continuing the multi-network counter
C8_IndexContinuesCounter ==
  (fn = "getSriovNetworkInfo" /\ out # <<>>) => out[1] = LinksBy(arg, ClaimedIndex)

\* C8, amended: the link names are eth or net followed by the
\* declaration-order index, an alternate-CNI network's index being the
\* number of multi-network and alternate-CNI networks declared before it
C8_IndexByDeclarationOrder ==
  (fn = "getSriovNetworkInfo" /\ out # <<>>) => out[1] = LinksBy(arg, CountedIndex)

C8_Witness ==
  /\ fn = "getSriovNetworkInfo"
  /\ Len(arg.Networks) = 3
  /\ arg.Networks[1].Kind = "multusDefault"
  /\ arg.Networks[2].Kind = "multus" /\ arg.Networks[3].Kind = "multus"
  /\ Len(arg.Interfaces) = 2
  /\ arg.Interfaces[1].Name = 3 /\ arg.Interfaces[2].Name = 1
  /\ out = << <<"net2", "eth0">> >>

\* C7: the subnet synthesized for an interface-state record: manual and
\* empty without a primary address; otherwise static, placeholder and
\* self routes dropped, the last remaining route without a destination
\* giving the gateway, the remaining routes with a destination listed in order
C7_RouteSynthesis ==
  (fn = "convertCloudInitNetworksToCloudInitNetConfig" /\ out # <<>>) =>
    LET Placeholder(r) == r.Dst = NoNet /\ r.Src = NoIP /\ r.Gw = NoIP
        SelfRoute(r) == r.Src = arg.IP.IP
        IsDefault(r) == ~Placeholder(r) /\ ~SelfRoute(r) /\ r.Dst = NoNet
        IsListed(r) == ~Placeholder(r) /\ ~SelfRoute(r) /\ r.Dst # NoNet
        defaults == SelectSeq(arg.Routes, IsDefault)
        listed == SelectSeq(arg.Routes, IsListed)
    IN  /\ Len(out[1].Config) = 1
        /\ Len(out[1].Config[1].Subnets) = 1
        /\ LET subnet == out[1].Config[1].Subnets[1]
           IN  IF arg.IP = NoAddr
               THEN subnet = [SubnetType |-> "manual", Address |-> "",
                              Gateway |-> "", Routes |-> <<>>]
               ELSE /\ subnet.SubnetType = "static"
                    /\ subnet.Address = arg.IP.Cidr
                    /\ subnet.Gateway =
                         IF defaults = <<>> THEN ""
                         ELSE IF defaults[Len(defaults)].Gw = NoIP THEN Nil
                         ELSE defaults[Len(defaults)].Gw
                    /\ subnet.Routes =
                         [k \in 1..Len(listed) |->
                            [Network |-> listed[k].Dst.IP,
                             Netmask |-> listed[k].Dst.Mask,
                             Gateway |-> listed[k].Gw]]

C7_Witness ==
  /\ fn = "convertCloudInitNetworksToCloudInitNetConfig"
  /\ arg.IP = HostAddr
  /\ Len(arg.Routes) = 3
  /\ arg.Routes[1] = [Dst |-> NoNet, Src |-> NoIP, Gw |-> "10.0.0.1"]
  /\ arg.Routes[2].Dst # NoNet /\ arg.Routes[2].Src = NoIP
  /\ arg.Routes[3] = [Dst |-> NoNet, Src |-> "10.0.0.7", Gw |-> "10.0.0.2"]
  /\ out # <<>>
  /\ out[1].Config[1].Subnets[1].Gateway = "10.0.0.2"
  /\ Len(out[1].Config[1].Subnets[1].Routes) = 1

Occurrences(text, t) == Cardinality({i \in 1..Len(text) : text[i] = t})

\* C9: the resolver step applied to its own output returns it unchanged, the
\* block being there at most once; a text without the header or with the
\* marker is returned unchanged
C9_ResolvIdempotent ==
  (fn = "setAdditionalData") =>
    /\ Len(out) = 2 =>
         /\ out[2] = out[1]
         /\ Occurrences(out[2], MARK) <= IF Contains(arg.userData, <<MARK>>)
                                         THEN Occurrences(arg.userData, MARK)
                                         ELSE 1
    /\ (Len(out) >= 1
          /\ (~HasPrefix(arg.userData, <<HDR>>) \/ Contains(arg.userData, <<MARK>>)))
         => out[1] = arg.userData

C9_Witness ==
  /\ fn = "setAdditionalData"
  /\ Len(out) = 2
  /\ HasPrefix(arg.userData, <<HDR>>) /\ ~Contains(arg.userData, <<MARK>>)
  /\ out[1] = (arg.userData \o <<NL>>) \o arg.resolvData
  /\ out[2] = out[1]

\* C10: a failed host query is the last query of its request; the request
\* has ended in an error outcome and has returned no network-config document
C10_FailFast ==
  \A q \in 1..Len(queries) :
    ~queries[q].ok =>
      /\ q = Len(queries)
      /\ CallEnded
      /\ res.outcome \in {"error", "panic"}
      /\ res.networkData = <<>>
      /\ res.CloudInitData = req.cid

C10_Witness ==
  /\ pc = "dead"
  /\ Cardinality(SriovIfaces(req.vmi)) = 2
  /\ Len(sriovVifs) = 1
  /\ Len(queries) = 6
  /\ ~queries[6].ok /\ queries[6].link # queries[1].link
  /\ res.networkData = <<>>

====
